---- MODULE Spec2Model ----
(***************************************************************************)
(* Canadian Aircraft Dashboard (src/aircraft_dashboard.py).                *)
(*                                                                         *)
(* The script is re-executed from top to bottom on every user interaction. *)
(* One execution = load_data() (cached), the sidebar widgets, the filter   *)
(* section and the charts.  The model keeps the two sheets of the          *)
(* workbook, the st.cache_data store, the widget values of the session and *)
(* the successive values of `flt`.                                         *)
(*                                                                         *)
(* Cells.  A cell is NA, a number, a string Str(s) or a date.  A number is *)
(* an exact fraction n/d in lowest terms, so that a float such as 1500.5,  *)
(* the text "1.5" and Python's int() truncation are all representable.     *)
(* The text of Common Name, Model Name and of the numeric columns is a     *)
(* tuple of characters (the search and the number parser look inside it);  *)
(* every other string is atomic.                                           *)
(***************************************************************************)
EXTENDS Integers, Sequences, FiniteSets, TLC

VARIABLES
    schema,      \* which optional columns the curr sheet has
    curr,        \* sheet "carscurr" of the workbook, cell by cell
    owners,      \* sheet "carsownr" of the workbook, cell by cell
    cache,       \* st.cache_data store of load_data(): <<>> or <<result>>
    started,     \* the script has run at least once in this process
    df,          \* the script's `df` in the latest run
    dtypes,      \* the name columns of `df` whose dtype is object
    WEIGHT_COL,  \* the script's WEIGHT_COL in the latest run
    spec,        \* the widget values (the FilterSpec) of the latest run
    fltCat,      \* `flt` after the set-membership filters (line 125)
    fltNum,      \* `flt` after the range filters (line 133)
    fltSearch,   \* `flt` after the search filter (line 137)
    flt,         \* `flt` after the "null" replacement (line 139)
    manu_df,     \* Top 10 Manufacturers: <<>> when not built, else <<chart>>
    model_df,    \* Top 10 Models: <<>> when not built, else <<chart>>
    err,         \* "none", or the exception that ended the latest run
    clicks       \* number of widget interactions so far

vars == <<schema, curr, owners, cache, started, df, dtypes, WEIGHT_COL, spec,
          fltCat, fltNum, fltSearch, flt, manu_df, model_df, err, clicks>>

-----------------------------------------------------------------------------
(* Bounds of the model *)

MaxRows == 2          \* rows of the curr sheet (filter specification)
MaxClicks == 2        \* widget interactions in one session
MaxOwners == 2        \* rows of the owner sheet (loader specification)
MaxDistinct == 11     \* distinct manufacturers (leaderboard specification)
MaxRepeats == 1       \* rows repeating a manufacturer already seen
MaxMissing == 1       \* rows with a missing manufacturer

(* Program constants *)

TopN == 10

CANADA_PROVINCES ==
    << "British Columbia", "Alberta", "Saskatchewan", "Manitoba", "Ontario",
       "Quebec", "New Brunswick", "Nova Scotia", "Prince Edward Island",
       "Newfoundland and Labrador", "Yukon", "Northwest Territories",
       "Nunavut" >>

-----------------------------------------------------------------------------
(* Cells *)

NA == [k |-> "na"]
Str(s) == [k |-> "str", s |-> s]
Date(y) == [k |-> "date", y |-> y]
Range(f) == {f[x] : x \in DOMAIN f}

Abs(i) == IF i < 0 THEN -i ELSE i

RECURSIVE Gcd(_, _)
Gcd(a, b) == IF b = 0 THEN a ELSE Gcd(b, a % b)

\* the number n/d (d > 0), in lowest terms
Num(n, d) ==
    LET g == Gcd(Abs(n), d)
    IN [k |-> "num", n |-> n \div g, d |-> d \div g]

Whole(i) == Num(i, 1)

\* a <= b for two numbers
Leq(a, b) == a.n * b.d <= b.n * a.d

NullName == "null"

-----------------------------------------------------------------------------
(* Generic frame helpers *)

RECURSIVE Concat(_)
Concat(ss) == IF ss = <<>> THEN <<>> ELSE Head(ss) \o Concat(Tail(ss))

\* the non-missing values of a column, in row order
Column(table, col) == [i \in 1..Len(table) |-> table[i][col]]
DropNA(cells) == SelectSeq(cells, LAMBDA c : c # NA)

\* Series.unique() after dropna(): distinct values in order of first appearance
RECURSIVE Unique(_)
Unique(cells) ==
    IF cells = <<>> THEN <<>>
    ELSE LET front == Unique(SubSeq(cells, 1, Len(cells) - 1))
             last == cells[Len(cells)]
         IN IF last \in Range(front) THEN front ELSE Append(front, last)

SeqsUpTo(S, n) == UNION {[1..m -> S] : m \in 0..n}

-----------------------------------------------------------------------------
(* load_data *)

\* the columns whose text the model spells out character by character
CharCols ==
    {"CommonName", "ModelName", "NumberOfEngines", "AircraftAge", "Year", "Weight"}

\* the strings read_excel takes for a missing value (pandas' default na_values)
NaNames ==
    { "-1.#IND", "1.#QNAN", "1.#IND", "-1.#QNAN", "#N/A N/A", "#N/A",
      "N/A", "n/a", "NA", "<NA>", "#NA", "NULL",
      "null", "NaN", "-NaN", "nan", "-nan", "None",
      "" }

NaTexts ==
    { <<"-", "1", ".", "#", "I", "N", "D">>,
      <<"1", ".", "#", "Q", "N", "A", "N">>,
      <<"1", ".", "#", "I", "N", "D">>,
      <<"-", "1", ".", "#", "Q", "N", "A", "N">>,
      <<"#", "N", "/", "A", " ", "N", "/", "A">>,
      <<"#", "N", "/", "A">>,
      <<"N", "/", "A">>,
      <<"n", "/", "a">>,
      <<"N", "A">>,
      <<"<", "N", "A", ">">>,
      <<"#", "N", "A">>,
      <<"N", "U", "L", "L">>,
      <<"n", "u", "l", "l">>,
      <<"N", "a", "N">>,
      <<"-", "N", "a", "N">>,
      <<"n", "a", "n">>,
      <<"-", "n", "a", "n">>,
      <<"N", "o", "n", "e">>,
      <<>> }

NameCols == {"CommonName", "ModelName"}

OwnerNA == [RegistrationMark |-> NA, Province |-> NA, TypeOfOwner |-> NA]

\* mutant of JoinRow: only the first owner record of a mark is joined
JoinRowFirstOwner(row, o) ==
    LET m == SelectSeq(o, LAMBDA x : x.RegistrationMark = row.Mark)
    IN IF m = <<>> THEN << row @@ OwnerNA >> ELSE << row @@ m[1] >>

\* curr.merge(owners, left_on="Mark", right_on="Registration Mark", how="left"):
\* the rows of one current row, one per owner row with an equal key, in owner
\* order; a single row with the owner columns missing when there is none
JoinRow(row, o) ==
    LET m == SelectSeq(o, LAMBDA x : x.RegistrationMark = row.Mark)
    IN IF m = <<>> THEN << row @@ OwnerNA >>
       ELSE [i \in 1..Len(m) |-> row @@ m[i]]

\* the merged frame carries a fresh RangeIndex 0..n-1
Merge(c, o) ==
    LET rows == Concat([i \in 1..Len(c) |-> JoinRow(c[i], o)])
    IN [i \in 1..Len(rows) |-> rows[i] @@ [idx |-> i - 1]]

Digits == <<"0", "1", "2", "3", "4", "5", "6", "7", "8", "9">>
DigitVal(ch) == (CHOOSE d \in 1..10 : Digits[d] = ch) - 1
AllDigits(txt) == Range(txt) \subseteq Range(Digits)

RECURSIVE ParseInt(_)
ParseInt(txt) ==
    IF txt = <<>> THEN 0
    ELSE 10 * ParseInt(SubSeq(txt, 1, Len(txt) - 1)) + DigitVal(txt[Len(txt)])

\* leading and trailing whitespace is skipped
RECURSIVE LStrip(_)
LStrip(txt) == IF txt # <<>> /\ Head(txt) = " " THEN LStrip(Tail(txt)) ELSE txt

RECURSIVE RStrip(_)
RStrip(txt) ==
    IF txt # <<>> /\ txt[Len(txt)] = " "
    THEN RStrip(SubSeq(txt, 1, Len(txt) - 1))
    ELSE txt

Signed(txt) == txt # <<>> /\ txt[1] \in {"+", "-"}
Unsigned(txt) == IF Signed(txt) THEN Tail(txt) ELSE txt
Negative(txt) == txt # <<>> /\ txt[1] = "-"

\* position of the first character of chars in txt, 0 when there is none
IndexOf(txt, chars) ==
    IF \E i \in DOMAIN txt : txt[i] \in chars
    THEN CHOOSE i \in DOMAIN txt :
             txt[i] \in chars /\ \A j \in 1..(i - 1) : txt[j] \notin chars
    ELSE 0

\* The float parser behind pd.to_numeric on a string:
\*   [spaces] [+|-] digits [. digits] [e|E [+|-] digits] [spaces]
\* with at least one digit in the mantissa.  Over the characters of the
\* model's texts no other string is a number.

\* sign * (ip.fp) * 10^ex, NA when a part is malformed
MakeNumber(sign, ip, fp, ex, exOk) ==
    IF ~(AllDigits(ip) /\ AllDigits(fp) /\ Len(ip) + Len(fp) >= 1 /\ exOk) THEN NA
    ELSE IF ex >= Len(fp) THEN Num(sign * ParseInt(ip \o fp) * 10^(ex - Len(fp)), 1)
    ELSE Num(sign * ParseInt(ip \o fp), 10^(Len(fp) - ex))

\* the mantissa is split at its decimal point, at position dot (0: none)
SplitMantissa(sign, mant, dot, ex, exOk) ==
    MakeNumber(sign,
               IF dot = 0 THEN mant ELSE SubSeq(mant, 1, dot - 1),
               IF dot = 0 THEN <<>> ELSE SubSeq(mant, dot + 1, Len(mant)),
               ex, exOk)

\* the exponent text: an optional sign and at least one digit
ParseExponent(sign, mant, present, expo) ==
    SplitMantissa(sign, mant, IndexOf(mant, {"."}),
                  IF present /\ AllDigits(Unsigned(expo))
                  THEN (IF Negative(expo) THEN -1 ELSE 1) * ParseInt(Unsigned(expo))
                  ELSE 0,
                  present => (Unsigned(expo) # <<>> /\ AllDigits(Unsigned(expo))))

\* the unsigned text is split at its first e or E, at position ePos (0: none)
SplitExponent(sign, u, ePos) ==
    ParseExponent(sign,
                  IF ePos = 0 THEN u ELSE SubSeq(u, 1, ePos - 1),
                  ePos # 0,
                  IF ePos = 0 THEN <<>> ELSE SubSeq(u, ePos + 1, Len(u)))

ParseSigned(body) ==
    SplitExponent(IF Negative(body) THEN -1 ELSE 1, Unsigned(body),
                  IndexOf(Unsigned(body), {"e", "E"}))

ParseNumber(txt) == ParseSigned(RStrip(LStrip(txt)))

\* pd.to_numeric(errors="coerce"): numbers stay, numeric text parses, the rest
\* (missing, other text, dates) is NaN
ToNumeric(cell) ==
    IF cell.k = "num" THEN cell
    ELSE IF cell.k = "str" THEN ParseNumber(cell.s)
    ELSE NA

\* pd.read_excel on one cell: a string of the default na_values reads as NaN
ReadCell(col, cell) ==
    IF cell.k = "str" /\ cell.s \in (IF col \in CharCols THEN NaTexts ELSE NaNames)
    THEN NA
    ELSE cell

\* read_excel's column inference: a column whose cells are all blanks,
\* numbers or numeric text is returned as numbers
NumericColumn(cells) == \A i \in DOMAIN cells : ToNumeric(cells[i]) # NA \/ cells[i] = NA

\* the na_values step of read_excel, cell by cell
ReadCells(sheet) ==
    [i \in 1..Len(sheet) |-> [col \in DOMAIN sheet[i] |-> ReadCell(col, sheet[i][col])]]

\* the inference step: the cells of a numeric column are converted
Inferred(cells) ==
    [i \in 1..Len(cells) |->
        [col \in DOMAIN cells[i] |->
            IF col \in CharCols /\ NumericColumn(Column(cells, col))
            THEN ToNumeric(cells[i][col])
            ELSE cells[i][col]]]

\* pd.read_excel(xl_file, sheet_name=...): the na_values, then the inference
\* column by column; a column with one string that is no number keeps every
\* cell as it is.  Atomic strings stand for text that is no number.
ReadExcel(sheet) == Inferred(ReadCells(sheet))

\* dtype of a column read_excel returns: object when the sheet has no row or
\* the column kept a string, a numeric dtype otherwise
ObjectDtype(table, col) ==
    Len(table) = 0 \/ \E i \in DOMAIN table : table[i][col].k = "str"

\* pd.to_datetime(errors="coerce").dt.year on a column of dates and blanks
RegYear(cell) == IF cell.k = "date" THEN Whole(cell.y) ELSE NA

\* "Issue Date" if "Issue Date" in df.columns else "Modified Date"
DateColumn(sch) == IF sch.issue THEN "IssueDate" ELSE "ModifiedDate"

\* next((c for c in df.columns if "weight" in c.lower()), None)
WeightColumn(sch) == IF sch.weight THEN "Weight" ELSE "None"

\* mutant of IsIn: a missing value passes
IsInOrMissing(cell, values) == cell = NA \/ cell \in values

\* Series.isin(values)
IsIn(cell, values) == cell \in values

ProvinceCells == {Str(CANADA_PROVINCES[i]) : i \in DOMAIN CANADA_PROVINCES}

Coerce(row, wcol, dcol) ==
    [col \in DOMAIN row \cup {"RegYear"} |->
        IF col \in {"NumberOfEngines", "AircraftAge", "Year"} THEN ToNumeric(row[col])
        ELSE IF col = "RegYear" THEN RegYear(row[dcol])
        ELSE IF col = wcol THEN ToNumeric(row[col])
        ELSE row[col]]

\* the body of load_data(), run on the two sheets of the workbook
ReadAndJoin(c, o, sch) ==
    LET wcol == WeightColumn(sch)
        sheet == ReadExcel(c)
        merged == Merge(sheet, ReadExcel(o))
        typed == [i \in 1..Len(merged) |-> Coerce(merged[i], wcol, DateColumn(sch))]
    IN [df |-> SelectSeq(typed, LAMBDA r : IsIn(r.Province, ProvinceCells)),
        wcol |-> wcol,
        dtypes |-> {col \in NameCols : ObjectDtype(sheet, col)}]

\* mutant of LoadData: no cache, the workbook is read on every run
LoadDataUncached == ReadAndJoin(curr, owners, schema)

\* @st.cache_data: the body runs only when the store is empty
LoadData == IF cache # <<>> THEN cache[1] ELSE ReadAndJoin(curr, owners, schema)

-----------------------------------------------------------------------------
(* Sidebar *)

\* sorted(df[col].dropna().unique()): the options of a multiselect
Options(table, col) == Range(Unique(DropNA(Column(table, col))))

NumVals(table, col) == {x \in Range(Column(table, col)) : x.k = "num"}
SetMin(S) == CHOOSE x \in S : \A y \in S : Leq(x, y)
SetMax(S) == CHOOSE x \in S : \A y \in S : Leq(y, x)

\* Python int() of a float: truncation toward zero
IntOf(c) == IF c.n >= 0 THEN c.n \div c.d ELSE -((-c.n) \div c.d)

\* int(df[col].min()), int(df[col].max()); min() of no value is NaN and
\* int(NaN) raises ValueError, modelled as the empty tuple
DefaultRange(table, col) ==
    LET vals == NumVals(table, col)
    IN IF vals = {} THEN <<>> ELSE << IntOf(SetMin(vals)), IntOf(SetMax(vals)) >>

\* the range widgets in the order the sidebar builds them (lines 61-86)
RangeOrder == <<"num_engines", "year_range", "age_range", "weight_range">>

RangeColumnOf(w, wcol) ==
    CASE w = "num_engines" -> "NumberOfEngines"
      [] w = "year_range" -> "Year"
      [] w = "age_range" -> "AircraftAge"
      [] w = "weight_range" -> wcol

\* the range widgets of this table: weight only with a weight column
RangeWidgets(wcol) == IF wcol # "None" THEN RangeOrder ELSE SubSeq(RangeOrder, 1, 3)

\* position in RangeOrder of the first int() that raises, 0 when none does
FirstFailing(table, wcol) ==
    LET bad == {i \in DOMAIN RangeWidgets(wcol) :
                   DefaultRange(table, RangeColumnOf(RangeOrder[i], wcol)) = <<>>}
    IN IF bad = {} THEN 0 ELSE CHOOSE i \in bad : \A j \in bad : i <= j

SidebarFails(table, wcol) == FirstFailing(table, wcol) # 0

\* the multiselects built before the first int() (lines 56-59)
EarlySelections == {"province", "category", "owner_type", "engine_cat"}

\* what a widget returns when nothing was entered; <<>> for a range widget
\* that is not on the page
NoSpec ==
    [province |-> {}, category |-> {}, owner_type |-> {}, engine_cat |-> {},
     num_engines |-> <<>>, year_range |-> <<>>, age_range |-> <<>>,
     weight_range |-> <<>>, country_sel |-> {}, search |-> <<>>,
     chart_top_manu |-> TRUE, chart_top_model |-> TRUE]

\* the widget values of a first run: nothing selected, full ranges, no
\* search, every chart ticked
DefaultSpec(table, wcol) ==
    [NoSpec EXCEPT
        !.num_engines = DefaultRange(table, "NumberOfEngines"),
        !.year_range = DefaultRange(table, "Year"),
        !.age_range = DefaultRange(table, "AircraftAge"),
        !.weight_range = IF wcol # "None" THEN DefaultRange(table, wcol) ELSE <<>>]

\* The values the sidebar returns in one run.  widgets is <<>> on the first
\* run and <<s>> when the session holds the values s.  When an int() raises,
\* only the widgets built before it are on the page.
Sidebar(widgets, table, wcol) ==
    LET s == IF widgets = <<>> THEN DefaultSpec(table, wcol) ELSE widgets[1]
        k == FirstFailing(table, wcol)
        built == EarlySelections \cup {RangeOrder[i] : i \in 1..(k - 1)}
    IN IF k = 0 THEN s
       ELSE [w \in DOMAIN s |-> IF w \in built THEN s[w] ELSE NoSpec[w]]

-----------------------------------------------------------------------------
(* Filter Application *)

\* lines 115-125: each multiselect filters only when something is selected
FilterCat(table, s, sch) ==
    LET f1 == IF s.province # {}
              THEN SelectSeq(table, LAMBDA r : IsIn(r.Province, s.province))
              ELSE table
        f2 == IF s.category # {}
              THEN SelectSeq(f1, LAMBDA r : IsIn(r.AircraftCategory, s.category))
              ELSE f1
        f3 == IF s.owner_type # {}
              THEN SelectSeq(f2, LAMBDA r : IsIn(r.TypeOfOwner, s.owner_type))
              ELSE f2
        f4 == IF s.engine_cat # {}
              THEN SelectSeq(f3, LAMBDA r : IsIn(r.EngineCategory, s.engine_cat))
              ELSE f3
    IN IF s.country_sel # {} /\ sch.country
       THEN SelectSeq(f4, LAMBDA r : IsIn(r.Country, s.country_sel))
       ELSE f4

\* mutant of Between: NaN passes
BetweenKeepsNaN(cell, rng) ==
    cell.k # "num" \/ (rng[1] * cell.d <= cell.n /\ cell.n <= rng[2] * cell.d)

\* Series.between(lo, hi) for whole lo, hi: inclusive on both ends, False for
\* NaN; lo <= n/d <= hi
Between(cell, rng) ==
    /\ cell.k = "num"
    /\ rng[1] * cell.d <= cell.n
    /\ cell.n <= rng[2] * cell.d

\* mutant of FilterNum: the weight range is never applied
FilterNumNoWeight(table, s, wcol) ==
    SelectSeq(table, LAMBDA r :
        /\ Between(r.NumberOfEngines, s.num_engines)
        /\ Between(r.Year, s.year_range)
        /\ Between(r.AircraftAge, s.age_range))

\* lines 127-133
FilterNum(table, s, wcol) ==
    LET f6 == SelectSeq(table, LAMBDA r :
                  /\ Between(r.NumberOfEngines, s.num_engines)
                  /\ Between(r.Year, s.year_range)
                  /\ Between(r.AircraftAge, s.age_range))
    IN IF wcol # "None" /\ s.weight_range # <<>>
       THEN SelectSeq(f6, LAMBDA r : Between(r[wcol], s.weight_range))
       ELSE f6

\* The characters of the modelled texts and queries: letters, digits and
\* the space, which a pattern matches literally, and three regex
\* metacharacters.  No character closes a group or a class, so a pattern
\* holding "(" or "[" does not compile.
Lower(ch) ==
    CASE ch = "B" -> "b" [] ch = "O" -> "o" [] ch = "E" -> "e"
      [] ch = "N" -> "n" [] ch = "U" -> "u" [] ch = "L" -> "l"
      [] OTHER -> ch

\* re.compile(pat, re.IGNORECASE) raises re.error
RegexError(pat) == \E j \in DOMAIN pat : pat[j] \in {"(", "["}

\* Series.str on a column: AttributeError ("Can only use .str accessor with
\* string values") when the dtype is numeric, or when the dtype is object and
\* the non-missing values are numbers only
StrAccessorFails(table, col, objcols) ==
    LET vals == Range(DropNA(Column(table, col)))
    IN \/ col \notin objcols
       \/ vals # {} /\ \A c \in vals : c.k # "str"

\* the exception line 136 raises, "none" when it raises none: the operands
\* of | are evaluated left to right, .str before .contains
SearchError(table, s, objcols) ==
    IF s.search = <<>> THEN "none"
    ELSE IF StrAccessorFails(table, "CommonName", objcols) THEN "AttributeError"
    ELSE IF RegexError(s.search) THEN "re.error"
    ELSE IF StrAccessorFails(table, "ModelName", objcols) THEN "AttributeError"
    ELSE "none"

\* the compiled pattern matches text at offset i: "." matches any character
MatchAt(pat, txt, i) ==
    \A j \in DOMAIN pat : pat[j] = "." \/ Lower(pat[j]) = Lower(txt[i + j])

\* Series.str.contains(pat, case=False, na=False), regex=True by default:
\* False for a missing value and for a value that is not a string
StrContains(cell, pat) ==
    /\ cell.k = "str"
    /\ \E i \in 0..(Len(cell.s) - Len(pat)) : MatchAt(pat, cell.s, i)

\* lines 135-137
FilterSearch(table, s) ==
    IF s.search # <<>>
    THEN SelectSeq(table, LAMBDA r :
             StrContains(r.CommonName, s.search) \/ StrContains(r.ModelName, s.search))
    ELSE table

\* the string "null" as a cell of the column
NullCell(col) == IF col \in CharCols THEN Str(<<"n", "u", "l", "l">>) ELSE Str(NullName)

\* mutant of ReplaceNull: every string becomes a missing value
ReplaceEveryString(row) ==
    [col \in DOMAIN row |->
        IF col # "idx" /\ row[col].k = "str" THEN NA ELSE row[col]]

\* flt.replace("null", pd.NA): every cell equal to the string "null"
ReplaceNull(row) ==
    [col \in DOMAIN row |->
        IF col # "idx" /\ row[col] = NullCell(col) THEN NA ELSE row[col]]

Normalize(table) == [i \in 1..Len(table) |-> ReplaceNull(table[i])]

-----------------------------------------------------------------------------
(* Charts: value_counts().head(10) *)

Count(cells, v) == Cardinality({i \in DOMAIN cells : cells[i] = v})

\* Series.value_counts() sorts the counts with sort_values(ascending=False),
\* whose default kind is "quicksort": numpy's introsort, or a vectorised sort
\* where the processor has one.  Neither is stable, so pairs of equal count
\* come out in an order the script does not fix: every order is an outcome.

\* p may be placed wherever the counts stay in descending order
InsertDesc(sorted, p) ==
    {SubSeq(sorted, 1, k) \o <<p>> \o SubSeq(sorted, k + 1, Len(sorted)) :
        k \in {n \in 0..Len(sorted) :
                  /\ \A i \in 1..n : sorted[i][2] >= p[2]
                  /\ \A i \in (n + 1)..Len(sorted) : sorted[i][2] <= p[2]}}

\* the orders a descending sort by count can return
RECURSIVE SortDesc(_)
SortDesc(pairs) ==
    IF pairs = <<>> THEN {<<>>}
    ELSE UNION {InsertDesc(s, pairs[Len(pairs)]) :
                    s \in SortDesc(SubSeq(pairs, 1, Len(pairs) - 1))}

\* Series.value_counts(): NaN dropped, one (value, count) pair per distinct
\* value, sorted by count, descending; the set of the results it can return
ValueCounts(cells) ==
    LET keys == Unique(DropNA(cells))
    IN SortDesc([i \in 1..Len(keys) |-> <<keys[i], Count(cells, keys[i])>>])

HeadN(s, n) == SubSeq(s, 1, IF Len(s) < n THEN Len(s) ELSE n)

\* value_counts().head(10): the results it can return
TopTen(table, col) == {HeadN(c, TopN) : c \in ValueCounts(Column(table, col))}

-----------------------------------------------------------------------------
(* The inputs: rows of the two sheets *)

Boeing737 ==
    [Mark |-> Str("C-ABCD"), CommonName |-> Str(<<"B", "o", "e">>),
     ModelName |-> Str(<<"7", "3", "7">>), Manufacturer |-> Str("Boeing"),
     AircraftCategory |-> Str("Aeroplane"), EngineCategory |-> Str("Turbo Fan"),
     NumberOfEngines |-> Whole(2), Year |-> Whole(2001), AircraftAge |-> Whole(20),
     Weight |-> Whole(1500), Country |-> Str("U.S.A."), IssueDate |-> Date(2003),
     ModifiedDate |-> Date(2010)]

\* a second aircraft that differs in every column; its engine count is text
Glider ==
    [Mark |-> Str("C-WXYZ"), CommonName |-> Str(<<"e", "l">>),
     ModelName |-> Str(<<"L", "7">>), Manufacturer |-> Str("Airbus"),
     AircraftCategory |-> Str("Glider"), EngineCategory |-> Str("Piston"),
     NumberOfEngines |-> Str(<<" ", "1", "e", "0">>), Year |-> Whole(2000),
     AircraftAge |-> Whole(21), Weight |-> Whole(1501), Country |-> Str("France"),
     IssueDate |-> NA, ModifiedDate |-> Date(2011)]

\* the first aircraft with one cell changed: an engine count that is no
\* number, a weight of 1500.5 typed as text, a category cell holding the
\* text "null", a blank model name, a model name typed as a number
CurrRows ==
    { Boeing737, Glider,
      [Boeing737 EXCEPT !.NumberOfEngines = Str(<<"t", "w", "o">>)],
      [Boeing737 EXCEPT !.Weight = Str(<<"1", "5", "0", "0", ".", "5">>)],
      [Boeing737 EXCEPT !.AircraftCategory = Str(NullName)],
      [Boeing737 EXCEPT !.ModelName = NA],
      [Boeing737 EXCEPT !.ModelName = Whole(737)] }

OwnerABCD ==
    [RegistrationMark |-> Str("C-ABCD"), Province |-> Str("Ontario"),
     TypeOfOwner |-> Str("Individual")]
OwnerWXYZ ==
    [RegistrationMark |-> Str("C-WXYZ"), Province |-> Str("Quebec"),
     TypeOfOwner |-> Str("Entity")]

OwnerRows ==
    { OwnerABCD, OwnerWXYZ,
      [RegistrationMark |-> Str("C-ABCD"), Province |-> Str("Texas"),
       TypeOfOwner |-> NA] }

Registry == <<OwnerABCD, OwnerWXYZ>>

\* a sheet without the optional columns the schema lacks
Project(row, sch) ==
    LET gone == (IF sch.weight THEN {} ELSE {"Weight"})
                \cup (IF sch.country THEN {} ELSE {"Country"})
                \cup (IF sch.issue THEN {} ELSE {"IssueDate"})
    IN [col \in DOMAIN row \ gone |-> row[col]]

Schemas == [weight : BOOLEAN, country : BOOLEAN, issue : BOOLEAN]
FullSchema == [weight |-> TRUE, country |-> TRUE, issue |-> TRUE]

ProvincePicks == {Str("Ontario"), Str("Quebec")}
Queries == { <<"b", "O">>, <<"l">>, <<".">>, <<"(">>, <<"[">> }

-----------------------------------------------------------------------------
(* The script *)

Aborted(e) ==
    /\ err' = e
    /\ fltSearch' = <<>> /\ flt' = <<>> /\ manu_df' = <<>> /\ model_df' = <<>>

\* the chart inputs line 155 / 164 can build: one when the box is ticked and
\* the filtered table is not empty, none otherwise
Chart(ticked, table, col) ==
    IF ticked /\ table # <<>> THEN {<<c>> : c \in TopTen(table, col)} ELSE {<<>>}

\* lines 115-169 once the sidebar is built
FilterAndChart(base, objcols, wcol, s) ==
    \E c \in {FilterCat(base, s, schema)} :
    \E n \in {FilterNum(c, s, wcol)} :
    \E e \in {SearchError(n, s, objcols)} :
    \E shown \in {Normalize(FilterSearch(n, s))} :
        /\ fltCat' = c
        /\ fltNum' = n
        /\ IF e # "none"
           THEN Aborted(e)
           ELSE /\ err' = "none"
                /\ fltSearch' = FilterSearch(n, s)
                /\ flt' = shown
                /\ manu_df' \in Chart(s.chart_top_manu, shown, "Manufacturer")
                /\ model_df' \in Chart(s.chart_top_model, shown, "ModelName")

\* One execution of the script.  widgets is <<>> on the first run (every
\* widget returns its default) and <<s>> when the session holds the values s.
RunScript(widgets) ==
    \E ld \in {LoadData} :
    \E s \in {Sidebar(widgets, ld.df, ld.wcol)} :
        /\ cache' = <<ld>>
        /\ started' = TRUE
        /\ df' = ld.df
        /\ dtypes' = ld.dtypes
        /\ WEIGHT_COL' = ld.wcol
        /\ spec' = s
        /\ IF SidebarFails(ld.df, ld.wcol)
           THEN /\ fltCat' = <<>> /\ fltNum' = <<>>
                /\ Aborted("ValueError")
           ELSE FilterAndChart(ld.df, ld.dtypes, ld.wcol, s)

-----------------------------------------------------------------------------
(* Actions *)

Start ==
    /\ ~started
    /\ RunScript(<<>>)
    /\ UNCHANGED <<schema, curr, owners, clicks>>

CanClick == started /\ clicks < MaxClicks

\* the widget was put on the page by the latest run
OnPage(w) ==
    \/ err # "ValueError"
    \/ w \in EarlySelections
    \/ w \in Range(RangeOrder) /\ spec[w] # <<>>

SelectOptions(w) ==
    CASE w = "province" -> ProvincePicks
      [] w = "category" -> Options(df, "AircraftCategory")
      [] w = "owner_type" -> Options(df, "TypeOfOwner")
      [] w = "engine_cat" -> Options(df, "EngineCategory")
      [] w = "country_sel" -> IF schema.country THEN Options(df, "Country") ELSE {}

RangeColumn(w) == RangeColumnOf(w, WEIGHT_COL)

\* number_input(min_value=lo, max_value=hi): any integer of lo..hi
RangeInputs(w) ==
    IF spec[w] = <<>> THEN {}
    ELSE LET d == DefaultRange(df, RangeColumn(w))
         IN d[1]..d[2]

Rerun(s) ==
    /\ RunScript(<<s>>)
    /\ clicks' = clicks + 1
    /\ UNCHANGED <<schema, curr, owners>>

\* a multiselect changes
SetSelection(w, sel) ==
    /\ CanClick
    /\ OnPage(w)
    /\ sel # spec[w]
    /\ Rerun([spec EXCEPT ![w] = sel])

\* one of the two number inputs of a range changes
SetRange(w, end, v) ==
    /\ CanClick
    /\ OnPage(w)
    /\ v # spec[w][end]
    /\ Rerun([spec EXCEPT ![w][end] = v])

\* the search box changes
SetSearch(q) ==
    /\ CanClick
    /\ OnPage("search")
    /\ q # spec.search
    /\ Rerun([spec EXCEPT !.search = q])

\* the checkbox of a leaderboard is ticked or unticked (lines 100-101)
ToggleChart(w) ==
    /\ CanClick
    /\ OnPage(w)
    /\ Rerun([spec EXCEPT ![w] = ~spec[w]])

\* the checkbox of another chart changes (lines 102-107)
ToggleOtherChart ==
    /\ CanClick
    /\ OnPage("chart_cat_dist")
    /\ Rerun(spec)

\* the workbook is rewritten on disk while the app runs: its last row goes
FileEdit ==
    /\ started
    /\ curr # <<>>
    /\ curr' = SubSeq(curr, 1, Len(curr) - 1)
    /\ UNCHANGED <<schema, owners, cache, started, df, dtypes, WEIGHT_COL, spec,
                   fltCat, fltNum, fltSearch, flt, manu_df, model_df, err, clicks>>

Idle ==
    /\ cache = <<>> /\ started = FALSE /\ df = <<>> /\ dtypes = {}
    /\ WEIGHT_COL = "None"
    /\ spec = NoSpec /\ fltCat = <<>> /\ fltNum = <<>> /\ fltSearch = <<>>
    /\ flt = <<>> /\ manu_df = <<>> /\ model_df = <<>> /\ err = "none"
    /\ clicks = 0

Sheets(rows, sch, n) ==
    {[i \in DOMAIN t |-> Project(t[i], sch)] : t \in SeqsUpTo(rows, n)}

Selections == {"province", "category", "owner_type", "engine_cat", "country_sel"}
Ranges == Range(RangeOrder)
Charts == {"chart_top_manu", "chart_top_model"}

Click ==
    \/ \E w \in Selections : \E sel \in SUBSET SelectOptions(w) : SetSelection(w, sel)
    \/ \E w \in Ranges : \E end \in 1..2 : \E v \in RangeInputs(w) : SetRange(w, end, v)
    \/ \E q \in Queries \cup {<<>>} : SetSearch(q)
    \/ \E w \in Charts : ToggleChart(w)
    \/ ToggleOtherChart

(* A session over a registry in which every aircraft has a Canadian owner *)

Init ==
    /\ schema \in Schemas
    /\ curr \in Sheets(CurrRows, schema, MaxRows)
    /\ owners = Registry
    /\ Idle

Next == Start \/ Click

Spec == Init /\ [][Next]_vars

(* The loader over any owner sheet *)

InitLoad ==
    /\ schema \in Schemas
    /\ curr \in Sheets({Boeing737, Glider}, schema, MaxRows)
    /\ owners \in SeqsUpTo(OwnerRows, MaxOwners)
    /\ Idle

NextLoad == Start

SpecLoad == InitLoad /\ [][NextLoad]_vars

(* A session during which the workbook changes on disk *)

InitCache ==
    /\ schema = FullSchema
    /\ curr \in Sheets({Boeing737, Glider}, schema, MaxRows)
    /\ owners = Registry
    /\ Idle

NextCache == Start \/ Click \/ FileEdit

SpecCache == InitCache /\ [][NextCache]_vars

(* A registry that grows before the app starts: the leaderboards' input *)

Maker(i) == Str("M" \o ToString(i))

\* the manufacturers build two models between them
MakerRow(i) ==
    [Boeing737 EXCEPT !.Manufacturer = Maker(i),
                      !.ModelName = Str(<<"M", ToString(1 + (i % 2))>>)]

\* the i-th manufacturer enters the registry with Fleet(i) aircraft: fleet
\* sizes differ, and two manufacturers share each size
Fleet(i) == (i + 1) \div 2

Makers(sheet) == Unique(DropNA(Column(sheet, "Manufacturer")))
Missing(sheet) == Cardinality({i \in DOMAIN sheet : sheet[i].Manufacturer = NA})
RECURSIVE Fleets(_)
Fleets(n) == IF n = 0 THEN 0 ELSE Fleet(n) + Fleets(n - 1)
Repeats(sheet) == Len(sheet) - Fleets(Len(Makers(sheet))) - Missing(sheet)

AddRows(row, n) ==
    /\ ~started
    /\ curr' = curr \o [j \in 1..n |-> row]
    /\ UNCHANGED <<schema, owners, cache, started, df, dtypes, WEIGHT_COL, spec,
                   fltCat, fltNum, fltSearch, flt, manu_df, model_df, err, clicks>>

\* the fleet of a manufacturer not yet in the sheet
AddNewMaker ==
    /\ Len(Makers(curr)) < MaxDistinct
    /\ AddRows(MakerRow(Len(Makers(curr)) + 1), Fleet(Len(Makers(curr)) + 1))

\* one more row of a manufacturer already in the sheet
AddSeenMaker(i) ==
    /\ Repeats(curr) < MaxRepeats
    /\ AddRows(MakerRow(i), 1)

\* a row whose manufacturer and model are missing
AddNoMaker ==
    /\ Missing(curr) < MaxMissing
    /\ AddRows([Boeing737 EXCEPT !.Manufacturer = NA, !.ModelName = NA], 1)

InitTop ==
    /\ schema = FullSchema
    /\ curr = <<>>
    /\ owners = Registry
    /\ Idle

NextTop ==
    \/ AddNewMaker
    \/ \E i \in 1..Len(Makers(curr)) : AddSeenMaker(i)
    \/ AddNoMaker
    \/ Start

SpecTop == InitTop /\ [][NextTop]_vars

-----------------------------------------------------------------------------
(* Vocabulary of the properties *)

Ran == started /\ err = "none"
Rendered == started /\ err # "ValueError"

Rows(table) == Range(table)
Indexes(table) == {table[i].idx : i \in DOMAIN table}

\* the rows of sub are rows of table, in table's order, none twice
SubTable(sub, table) ==
    /\ Rows(sub) \subseteq Rows(table)
    /\ \A i, j \in DOMAIN sub : i < j => sub[i].idx < sub[j].idx

SelectionColumn(w) ==
    CASE w = "province" -> "Province"
      [] w = "category" -> "AircraftCategory"
      [] w = "owner_type" -> "TypeOfOwner"
      [] w = "engine_cat" -> "EngineCategory"
      [] w = "country_sel" -> "Country"

ActiveRanges == {w \in Ranges : spec[w] # <<>>}

\* the value lies in the closed interval [lo, hi] of whole numbers
Within(cell, lo, hi) ==
    cell # NA /\ lo * cell.d <= cell.n /\ cell.n <= hi * cell.d

\* txt holds q as a substring, letter case ignored
HasSubstring(cell, q) ==
    /\ cell.k = "str"
    /\ \E i \in 0..(Len(cell.s) - Len(q)) :
          \A j \in 1..Len(q) : Lower(cell.s[i + j]) = Lower(q[j])

-----------------------------------------------------------------------------
(* C1 *)

\* the default bounds of the range widget w, as the sidebar computes them
DefaultOf(w) == DefaultRange(df, RangeColumn(w))

\* every range value of the record is present and inside the default bounds
InsideDefaults(r) ==
    \A w \in ActiveRanges :
        Within(r[RangeColumn(w)], DefaultOf(w)[1], DefaultOf(w)[2])

\* C1 as stated: with nothing selected, no search text and every range at
\* its default bounds, no record of the base table is dropped.
C1_EmptySpecDropsNothing ==
    (Ran /\ spec = DefaultSpec(df, WEIGHT_COL)) =>
        Len(flt) = Len(df) /\ Indexes(flt) = Indexes(df)

\* C1 amended: with nothing selected, no search text and every range at its
\* default bounds, the filtered table is the base table without the records
\* that have a range value missing or outside the integer default bounds.
C1_EmptySpecKeepsInsideDefaults ==
    (Ran /\ spec = DefaultSpec(df, WEIGHT_COL)) =>
        flt = SelectSeq(df, InsideDefaults)

\* the default FilterSpec drops a record and keeps another
C1_Witness ==
    /\ Ran /\ spec = DefaultSpec(df, WEIGHT_COL)
    /\ flt # <<>>
    /\ Len(flt) < Len(df)

-----------------------------------------------------------------------------
(* C2 *)

\* C2: a record is in the filtered table only if each of its range values
\* (engines, year, age, and weight when the column was detected) is present
\* and lies between the bounds of the FilterSpec, both included.
C2_RangeOnlyIfInside ==
    Rendered =>
        \A w \in ActiveRanges :
            \A r \in Rows(fltNum) \cup Rows(flt) :
                Within(r[RangeColumn(w)], spec[w][1], spec[w][2])

\* at the full default span a record with a missing range value was removed
\* by the range filter while another record stayed
C2_Witness ==
    /\ Ran /\ spec = DefaultSpec(df, WEIGHT_COL)
    /\ \E r \in Rows(fltCat) : r.NumberOfEngines = NA /\ r \notin Rows(fltNum)
    /\ flt # <<>>

-----------------------------------------------------------------------------
(* C3 *)

\* the filter section run on a table: predicates, then the "null" replacement
Reapply(table) ==
    Normalize(FilterSearch(FilterNum(FilterCat(table, spec, schema), spec, WEIGHT_COL),
                           spec))

\* the exception the filter section raises when run on a table
ReapplyError(table) ==
    SearchError(FilterNum(FilterCat(table, spec, schema), spec, WEIGHT_COL),
                spec, dtypes)

\* C3 as stated: filtering the filtered table again, with the same
\* FilterSpec, gives the filtered table.
C3_Idempotent ==
    Ran => ReapplyError(flt) = "none" /\ Reapply(flt) = flt

-----------------------------------------------------------------------------
(* C4 *)

PassesSelections(r) ==
    \A w \in Selections :
        \/ spec[w] = {}
        \/ /\ w = "country_sel" => schema.country
           /\ r[SelectionColumn(w)] # NA
           /\ r[SelectionColumn(w)] \in spec[w]

\* C4: the set-membership filters keep exactly the records that, for every
\* non-empty selection set, hold a non-missing value of that set; an empty
\* selection set removes nothing.
C4_SelectionFilters ==
    Rendered => fltCat = SelectSeq(df, PassesSelections)

\* a category is selected, a record with a missing category is in the base
\* table, and a record passes
C4_Witness ==
    /\ Ran
    /\ spec.category # {}
    /\ \E r \in Rows(df) : r.AircraftCategory = NA
    /\ fltCat # <<>>

-----------------------------------------------------------------------------
(* C5 *)

MatchesQuery(r) ==
    HasSubstring(r.CommonName, spec.search) \/ HasSubstring(r.ModelName, spec.search)

\* C5 as stated: for every non-empty query the run raises no error and the
\* search keeps exactly the records whose Common Name or Model Name holds
\* the query as a substring, letter case ignored.
C5_SearchIsSubstring ==
    (Rendered /\ spec.search # <<>>) =>
        /\ err = "none"
        /\ fltSearch = SelectSeq(fltNum, MatchesQuery)

-----------------------------------------------------------------------------
(* C6 *)

NumericCols == {"NumberOfEngines", "AircraftAge", "Year"} \cup {WeightColumn(schema)}

\* the record carries the current row c as read_excel returns it in its
\* sheet, its numeric columns coerced and its registration year taken from
\* the date column
CurrPart(r, c) ==
    /\ \A col \in DOMAIN c :
          r[col] = IF col \in NumericCols THEN ToNumeric(c[col]) ELSE c[col]
    /\ r.RegYear = RegYear(c[DateColumn(schema)])

CurrRead == ReadExcel(curr)

\* the record carries the owner columns o
OwnerPart(r, o) == \A col \in DOMAIN o : r[col] = ReadCell(col, o[col])

HasOwner(c) == \E j \in DOMAIN owners : owners[j].RegistrationMark = c.Mark

\* pairs of a current row and an owner record with the same mark and a
\* Canadian province
CanadianPairs ==
    {p \in (DOMAIN curr) \X (DOMAIN owners) :
        /\ owners[p[2]].RegistrationMark = curr[p[1]].Mark
        /\ owners[p[2]].Province \in ProvinceCells}

\* C6 as stated: every current row is in the table load() returns, with the
\* owner columns missing when no owner record has its mark.
C6_EveryCurrentRowReturned ==
    started =>
        \A i \in DOMAIN curr :
            \E r \in Rows(df) :
                /\ CurrPart(r, CurrRead[i])
                /\ ~HasOwner(curr[i]) => OwnerPart(r, OwnerNA)

\* C6 amended: load() returns one record per pair of a current row and an
\* owner record with the same mark and a province of the 13, in sheet
\* order, and nothing else; a current row without such an owner record (one
\* without any owner record has a missing province after the join) is not
\* in the table.
C6_CanadianPairsReturned ==
    started =>
        /\ Len(df) = Cardinality(CanadianPairs)
        /\ \A r \in Rows(df) :
              /\ r.Province \in ProvinceCells
              /\ \E p \in CanadianPairs :
                    CurrPart(r, CurrRead[p[1]]) /\ OwnerPart(r, owners[p[2]])
        /\ \A p \in CanadianPairs :
              \E r \in Rows(df) : CurrPart(r, CurrRead[p[1]]) /\ OwnerPart(r, owners[p[2]])
        /\ \A i, j \in DOMAIN df : i < j => df[i].idx < df[j].idx

\* one current row has an owner in Ontario and is returned, the other has
\* no owner record and is not
C6_Witness ==
    /\ started
    /\ Len(curr) = 2 /\ Len(df) = 1
    /\ HasOwner(curr[1]) /\ ~HasOwner(curr[2])
    /\ CurrPart(df[1], CurrRead[1])

-----------------------------------------------------------------------------
(* C7 *)

PassesRanges(r) ==
    \A w \in ActiveRanges : Between(r[RangeColumn(w)], spec[w])

PassesSearch(r) ==
    \/ spec.search = <<>>
    \/ StrContains(r.CommonName, spec.search)
    \/ StrContains(r.ModelName, spec.search)

PassesAll(r) == PassesSelections(r) /\ PassesRanges(r) /\ PassesSearch(r)

\* the filtered table as a function of the base table and the FilterSpec
Shown == Normalize(SelectSeq(df, PassesAll))

\* C7: once loaded, the base table and the weight column never change, and
\* the filtered table of every completed run is the filter of the base table
\* under the FilterSpec of that run, whatever was shown before.
C7_BaseFixedAndFilterFromBase ==
    [][ /\ started => (df' = df /\ dtypes' = dtypes /\ WEIGHT_COL' = WEIGHT_COL)
        /\ Ran' => flt' = Shown' ]_vars

\* after the workbook changed on disk and two interactions, a run shows a
\* proper, non-empty part of the base table
C7_Witness ==
    /\ Ran
    /\ clicks = 2
    /\ ReadAndJoin(curr, owners, schema).df # df
    /\ flt # <<>> /\ Len(flt) < Len(df)

-----------------------------------------------------------------------------
(* C8 *)

RECURSIVE SumCounts(_)
SumCounts(chart) ==
    IF chart = <<>> THEN 0 ELSE Head(chart)[2] + SumCounts(Tail(chart))

FirstRow(cells, v) ==
    LET at == {i \in DOMAIN cells : cells[i] = v}
    IN CHOOSE i \in at : \A j \in at : i <= j

\* the pairs of a leaderboard and their order by count
ByCount(chart, cells) ==
    LET vals == Range(cells) \ {NA}
        listed == {chart[i][1] : i \in DOMAIN chart}
    IN /\ Len(chart) = IF Cardinality(vals) < TopN THEN Cardinality(vals) ELSE TopN
       /\ \A i \in DOMAIN chart :
             chart[i][1] \in vals /\ chart[i][2] = Count(cells, chart[i][1])
       /\ \A i, j \in DOMAIN chart :
             i < j => chart[i][1] # chart[j][1] /\ chart[i][2] >= chart[j][2]
       /\ \A v \in vals \ listed : \A i \in DOMAIN chart : chart[i][2] >= Count(cells, v)
       /\ SumCounts(chart) <= Len(cells)

\* the position of a pair of values of equal count that the leaderboard
\* does not hold in order of first appearance
OutOfOrder(chart, cells) ==
    {i \in DOMAIN chart :
        \E j \in DOMAIN chart :
            /\ i < j
            /\ chart[i][2] = chart[j][2]
            /\ FirstRow(cells, chart[i][1]) > FirstRow(cells, chart[j][1])}

\* a value left out for a listed value of the same count that appears later
PassedOver(chart, cells) ==
    {v \in (Range(cells) \ {NA}) \ {chart[i][1] : i \in DOMAIN chart} :
        \E i \in DOMAIN chart :
            /\ chart[i][2] = Count(cells, v)
            /\ FirstRow(cells, chart[i][1]) > FirstRow(cells, v)}

Leaderboard(chart, cells) ==
    /\ ByCount(chart, cells)
    /\ OutOfOrder(chart, cells) = {}
    /\ PassedOver(chart, cells) = {}

\* the leaderboard is built exactly when its checkbox is ticked and the
\* filtered table is not empty
Built(board, ticked, cells) ==
    IF ticked /\ flt # <<>>
    THEN Len(board) = 1 /\ Leaderboard(board[1], cells)
    ELSE board = <<>>

\* C8: each leaderboard, built when its chart is ticked and the filtered
\* table is not empty, lists min(10, distinct non-missing values) pairs of
\* a value and its count over the filtered table, by count descending, ties
\* in order of first appearance; no omitted value has a larger count than a
\* listed one, and the listed counts add up to at most the record count.
C8_TopTen ==
    Ran => /\ Built(manu_df, spec.chart_top_manu, Column(flt, "Manufacturer"))
           /\ Built(model_df, spec.chart_top_model, Column(flt, "ModelName"))

\* eleven manufacturers, ten listed, and two of equal count listed against
\* their order of first appearance
C8_TieOutOfOrder ==
    /\ Ran
    /\ Cardinality(Range(Column(flt, "Manufacturer")) \ {NA}) = TopN + 1
    /\ manu_df # <<>>
    /\ Len(manu_df[1]) = TopN
    /\ OutOfOrder(manu_df[1], Column(flt, "Manufacturer")) # {}

\* What the leaderboards do guarantee: everything C8 states but the order
\* among values of equal count.
TopTenByCount ==
    Ran => /\ IF spec.chart_top_manu /\ flt # <<>>
              THEN Len(manu_df) = 1 /\ ByCount(manu_df[1], Column(flt, "Manufacturer"))
              ELSE manu_df = <<>>
           /\ IF spec.chart_top_model /\ flt # <<>>
              THEN Len(model_df) = 1 /\ ByCount(model_df[1], Column(flt, "ModelName"))
              ELSE model_df = <<>>

\* eleven manufacturers and a record without one: ten are listed, the
\* largest fleet first
TopTenByCountReached ==
    /\ Ran
    /\ Cardinality(Range(Column(flt, "Manufacturer")) \ {NA}) = TopN + 1
    /\ NA \in Range(Column(flt, "Manufacturer"))
    /\ manu_df # <<>>
    /\ Len(manu_df[1]) = TopN
    /\ manu_df[1][1][2] > manu_df[1][TopN][2]

-----------------------------------------------------------------------------
(* C9 *)

\* C9: every record of the filtered table is a record of the base table
\* with every field unchanged, and the records keep the base table's order.
C9_RowsUnchanged == Ran => SubTable(flt, df)

\* the workbook holds the text "null" in a category cell; that record is
\* shown as the base table has it, beside a record the filter removed
C9_Witness ==
    /\ Ran
    /\ \E i \in DOMAIN curr : curr[i].AircraftCategory = Str(NullName)
    /\ \E r \in Rows(flt) : r.AircraftCategory = NA /\ r \in Rows(df)
    /\ Len(flt) < Len(df)

-----------------------------------------------------------------------------
(* C10 *)

\* C10 as stated: the default bounds of every range filter span every
\* observed value of its column in the base table.
C10_DefaultsSpanObserved ==
    Rendered =>
        \A w \in ActiveRanges :
            \A r \in Rows(df) :
                r[RangeColumn(w)] # NA =>
                    Within(r[RangeColumn(w)], DefaultOf(w)[1], DefaultOf(w)[2])

====
